---------------------------- MODULE Spec2Model ----------------------------
(***************************************************************************)
(* A model of the register FSM oracle of src/register_fsm_model.py and of  *)
(* the register store of src/memory_model.py.                              *)
(*                                                                         *)
(* The parser is modelled byte by byte: one action per iteration of each   *)
(* of the three parsing loops, one action for the code that follows each   *)
(* loop, and one action for the response encoder of                        *)
(* __update_read_bytestreams.                                              *)
(*                                                                         *)
(* A LogicArray is modelled as the sequence of its bytes, most significant *)
(* byte first (all widths used are multiples of byte_w); a slice           *)
(* [hi : lo] of it is the matching sub-sequence.  Python's None is the     *)
(* empty sequence: the code tests both with the same truth test.           *)
(***************************************************************************)
EXTENDS Integers, Sequences, FiniteSets, TLC

---------------------------------------------------------------------------
(* CommandBytes *)
NULL == 0
READ == 19
WRITE == 35
READ_DATA == 3
BREAK == 85
ESCAPE == 231

(* RegisterFsmModel.__init__ and the generics the test bench reads *)
data_w == 32
addr_w == 16
byte_w == 8
\* (mutant) the address field has as many bytes as the address width needs
num_addr_bytes_ceil == (addr_w + byte_w - 1) \div byte_w
num_addr_bytes == 4
num_data_bytes == (data_w + byte_w - 1) \div byte_w

None == <<>>

Truthy(x) == Len(x) > 0

---------------------------------------------------------------------------
(* Bounds of the model *)

\* NULL bytes between the leading ESCAPE and the opcode of a bytestream
MaxPad == 1
\* frames (complete, aborted or interrupted) in one command bytestream
MaxFrames == 2
\* command bytestreams of one model that share the store
MaxCmds == 3
\* NULL bytes in front of the last byte of an address field
MaxAddrPad == 5
\* ESCAPE bytes a generated bytestream may hold, after its opcode, when the
\* generator draws one more ESCAPE
MaxEsc == 2

---------------------------------------------------------------------------
(* MemoryModel *)

valid_addrs == {0, 1, 2, 3, 231}

RECURSIVE Pow2(_)
Pow2(n) == IF n = 0 THEN 1 ELSE 2 * Pow2(n - 1)

\* len(self.ram)
RamLen == Pow2(addr_w)

\* The store words the bounded inputs can address; every other word of the
\* 2^addr_w words keeps its initial value and is never accessed.
RamAddrs == valid_addrs \cup {42, 85, 258, 59139}

InitialRam ==
    [idx \in RamAddrs |->
        IF idx = 0 THEN <<1, 35, 69, 103>>
        ELSE IF idx = 1 THEN <<137, 171, 205, 231>>
        ELSE IF idx = 2 THEN <<10, 11, 12, 13>>
        ELSE IF idx = 3 THEN <<16, 32, 48, 64>>
        ELSE IF idx = 231 THEN <<222, 173, 190, 239>>
        ELSE <<0, 0, 0, 0>>]

\* An unsigned integer as num_data_bytes bytes: LogicArray(wr_data, Range(data_w - 1, "downto", 0))
ToWord(bytes) ==
    [i \in 1..num_data_bytes |->
        IF i + Len(bytes) > num_data_bytes
        THEN bytes[i + Len(bytes) - num_data_bytes] ELSE 0]

MaxWord == [i \in 1..num_data_bytes |-> Pow2(byte_w) - 1]

\* x < y for two unsigned integers given as big-endian byte sequences of equal length
RECURSIVE IntLess(_, _)
IntLess(x, y) ==
    IF x = <<>> THEN FALSE
    ELSE IF Head(x) # Head(y) THEN Head(x) < Head(y)
    ELSE IntLess(Tail(x), Tail(y))

\* assert addr >= 0 and addr < len(self.ram)
AddrInRange(addr) == addr >= 0 /\ addr < RamLen

\* assert wr_data >= 0 and wr_data < 2**self.data_w - 1
DataInRange(wr_data) == IntLess(ToWord(wr_data), MaxWord)

\* (mutant) the word is not stored
MemWriteLost(ram_, addr, wr_data) == ram_
\* MemoryModel.write, after its assertions
MemWrite(ram_, addr, wr_data) ==
    IF addr \in valid_addrs THEN [ram_ EXCEPT ![addr] = ToWord(wr_data)] ELSE ram_

\* self.ram[addr]
Word(ram_, addr) == IF addr \in DOMAIN ram_ THEN ram_[addr] ELSE <<0, 0, 0, 0>>

\* (mutant) the word is returned whether the address is mapped or not
MemReadUnguarded(ram_, addr) == Word(ram_, addr)
\* MemoryModel.read, after its assertion
MemRead(ram_, addr) ==
    IF addr \in valid_addrs THEN Word(ram_, addr) ELSE None

---------------------------------------------------------------------------
(* Helpers of the parser *)

\* (mutant) sequence[idx :]: the new frame starts at the escort itself
SuffixOffByOne(s, idx) == SubSeq(s, idx + 1, Len(s))
\* sequence[idx + 1 :] for a 0-based idx
Suffix(s, idx) == SubSeq(s, idx + 2, Len(s))

RECURSIVE Reverse(_)
Reverse(s) == IF s = <<>> THEN <<>> ELSE Append(Reverse(Tail(s)), Head(s))

\* The unsigned integer of at most two bytes
ToInt(bytes) ==
    IF Len(bytes) = 0 THEN 0
    ELSE IF Len(bytes) = 1 THEN bytes[1]
    ELSE bytes[1] * Pow2(byte_w) + bytes[2]

\* LogicArray(addr_bits)[self.addr_w - 1 : 0] raises IndexError when the array is
\* narrower than addr_w bits
AddrSliceOk(addr_bytes_) == Len(addr_bytes_) * byte_w >= addr_w

\* LogicArray(addr_bits)[self.addr_w - 1 : 0].integer: the low addr_w bits
AddrOf(addr_bytes_) ==
    ToInt(SubSeq(addr_bytes_, Len(addr_bytes_) - (addr_w \div byte_w) + 1, Len(addr_bytes_)))

\* read_logicarray[(idx + 1) * byte_w - 1 : idx * byte_w].integer, idx counted from
\* the least significant byte
ByteOf(word, idx) == word[Len(word) - idx]

\* (mutant) the bytes are left least significant first
ReadBytesNoReverse(word) ==
    IF Truthy(word)
    THEN [i \in 1..num_data_bytes |-> ByteOf(word, i - 1)]
    ELSE <<BREAK>>
\* The value __parse_read_bytestream returns for what MemoryModel.read gave
ReadBytes(word) ==
    IF Truthy(word)
    THEN Reverse([i \in 1..num_data_bytes |-> ByteOf(word, i - 1)])
    ELSE <<BREAK>>

\* (mutant) a write is acknowledged with its opcode
WriteReturnAck == <<WRITE>>
\* The value __parse_write_bytestream returns after the write
WriteReturn == None

\* (mutant) an escort that is none of the four is taken as BREAK
ClassifyAbortUnknown(is_escaped_, byte) ==
    IF ~is_escaped_
    THEN IF byte = ESCAPE THEN "escape" ELSE "append"
    ELSE IF byte = BREAK THEN "break"
    ELSE IF byte = WRITE THEN "write"
    ELSE IF byte = READ THEN "read"
    ELSE IF byte = ESCAPE THEN "literal"
    ELSE "break"
\* (mutant) the ESCAPE escort is not handled
ClassifyNoLiteral(is_escaped_, byte) ==
    IF ~is_escaped_
    THEN IF byte = ESCAPE THEN "escape" ELSE "append"
    ELSE IF byte = BREAK THEN "break"
    ELSE IF byte = WRITE THEN "write"
    ELSE IF byte = READ THEN "read"
    ELSE "ignore"
\* (mutant) the BREAK escort is not handled
ClassifyNoBreak(is_escaped_, byte) ==
    IF ~is_escaped_
    THEN IF byte = ESCAPE THEN "escape" ELSE "append"
    ELSE IF byte = WRITE THEN "write"
    ELSE IF byte = READ THEN "read"
    ELSE IF byte = ESCAPE THEN "literal"
    ELSE "ignore"
\* What one loop iteration does with a byte of a field that is not complete: the
\* code has this decision six times over (address and data, first byte and later
\* bytes, write and read), each time the same
Classify(is_escaped_, byte) ==
    IF ~is_escaped_
    THEN IF byte = ESCAPE THEN "escape" ELSE "append"
    ELSE IF byte = BREAK THEN "break"
    ELSE IF byte = WRITE THEN "write"
    ELSE IF byte = READ THEN "read"
    ELSE IF byte = ESCAPE THEN "literal"
    ELSE "ignore"

\* (mutant) every byte is appended once
StuffNone(bytes) == bytes
\* for byte in response: append it, and once more if it is ESCAPE
RECURSIVE Stuff(_)
Stuff(bytes) ==
    IF bytes = <<>> THEN <<>>
    ELSE (IF Head(bytes) = ESCAPE THEN <<ESCAPE, ESCAPE>> ELSE <<Head(bytes)>>)
         \o Stuff(Tail(bytes))

\* The entry __update_read_bytestreams appends for a response that is not empty
Encode(response_) ==
    IF Len(response_) > 1 THEN <<ESCAPE, READ_DATA>> \o Stuff(response_)
    ELSE <<ESCAPE, response_[1]>>

\* (mutant) a response that is empty is given an empty entry
EntriesWithEmpty(read_bytestreams_, response_) ==
    IF Truthy(response_) THEN Append(read_bytestreams_, Encode(response_))
    ELSE Append(read_bytestreams_, <<>>)
\* if response: ... read_bytestreams.append(read_bytestream)
Entries(read_bytestreams_, response_) ==
    IF Truthy(response_) THEN Append(read_bytestreams_, Encode(response_))
    ELSE read_bytestreams_

---------------------------------------------------------------------------
(* The command bytestreams the model is run on *)

\* A field on the wire: every logical byte, doubled when it is ESCAPE
RECURSIVE Wire(_)
Wire(bytes) ==
    IF bytes = <<>> THEN <<>>
    ELSE (IF Head(bytes) = ESCAPE THEN <<ESCAPE, ESCAPE>> ELSE <<Head(bytes)>>)
         \o Wire(Tail(bytes))

\* Logical address fields: two padding bytes, then addr_w / byte_w address bytes
LogicalAddrs ==
    {<<0, 0, 0, x>> : x \in {0, 1, 2, 3, 42, BREAK, ESCAPE}}
        \cup {<<0, 0, 1, 2>>, <<7, 0, 0, 3>>, <<0, 0, ESCAPE, 3>>}

WriteAddrs ==
    {<<0, 0, 0, x>> : x \in {1, 2, 42, ESCAPE}} \cup {<<0, 0, 1, 2>>, <<7, 0, 0, 3>>}

\* Logical data fields
DataVals ==
    {<<170, ESCAPE, 85, 170>>, <<255, 255, 255, 255>>, <<255, 255, 255, 254>>,
     <<0, 0, 0, 0>>, <<ESCAPE, ESCAPE, 0, ESCAPE>>}

\* What may end a field early: nothing, or ESCAPE and an escort that is no opcode,
\* or an ESCAPE that the bytestream ends on
Endings == {<<>>, <<ESCAPE, BREAK>>, <<ESCAPE, NULL>>, <<ESCAPE, 42>>, <<ESCAPE>>}

\* Address fields of any number of NULL bytes and one last byte
PaddedAddrs == {[i \in 1..(k + 1) |-> IF i <= k THEN NULL ELSE 3] : k \in 0..MaxAddrPad}

AddrPrefixes == {<<>>, <<0>>, <<0, 0, 0>>}

DataPrefixes == {<<>>, <<170>>, <<170, ESCAPE, ESCAPE, 85>>}

\* The bytes after the opcode of a frame
ReadBodies ==
    {Wire(a) : a \in LogicalAddrs}
        \cup {p \o e : p \in AddrPrefixes, e \in Endings}
        \cup PaddedAddrs

WriteBodies ==
    {Wire(a) \o Wire(d) : a \in WriteAddrs, d \in DataVals}
        \cup {p \o e : p \in AddrPrefixes, e \in Endings}
        \cup {<<0, 0, 0, 1>> \o p \o e : p \in DataPrefixes, e \in Endings}

\* The first frame of a bytestream, from its opcode on; BREAK and ESCAPE alone are
\* the generator's degenerate commands
FirstFrames ==
    {<<READ>> \o b : b \in ReadBodies}
        \cup {<<WRITE>> \o b : b \in WriteBodies}
        \cup {<<BREAK>>, <<ESCAPE>>}

\* A frame that follows another one: ESCAPE, opcode, body
NextFrames ==
    {<<ESCAPE, READ>> \o Wire(<<0, 0, 0, x>>) : x \in {1, 2, 42, ESCAPE}}
        \cup {<<ESCAPE, WRITE, 0, 0, 0, 2>> \o Wire(d) :
                d \in {<<170, ESCAPE, 85, 170>>, <<255, 255, 255, 255>>}}
        \cup {<<ESCAPE, READ, 0, ESCAPE, BREAK>>}

RECURSIVE Chains(_)
Chains(n) ==
    IF n = 0 THEN {<<>>}
    ELSE {<<>>} \cup {f \o c : f \in NextFrames, c \in Chains(n - 1)}

Pads == {[i \in 1..n |-> NULL] : n \in 0..MaxPad}

Commands ==
    {<<ESCAPE>> \o p \o f \o c : p \in Pads, f \in FirstFrames, c \in Chains(MaxFrames - 1)}

\* The commands of the runs of several bytestreams on one store
SharedCmds ==
    {<<ESCAPE, WRITE, 0, 0, 0, 2, 170, ESCAPE, ESCAPE, 85, 170>>,
     <<ESCAPE, WRITE, 0, 0, 0, 42, 1, 2, 3, 4>>,
     <<ESCAPE, WRITE, 0, 0, 0, 1, 0, 0, 0, 0>>,
     <<ESCAPE, WRITE, 0, 0, 0, 2, 9, 9, 9, 9>>,
     <<ESCAPE, WRITE, 0, 0, 0, 2, 137, 171, 205, ESCAPE, ESCAPE>>,
     <<ESCAPE, WRITE, 0, 0, 0, 2, 170, ESCAPE, BREAK>>,
     <<ESCAPE, WRITE, 0, 0, 0, 1, 170, ESCAPE, READ, 0, 0, 0, 2>>,
     <<ESCAPE, READ, 0, 0, 0, 1>>,
     <<ESCAPE, READ, 0, 0, 0, 2>>,
     <<ESCAPE, READ, 0, 0, 0, 42>>}

RECURSIVE Lists(_)
Lists(n) ==
    IF n = 0 THEN {<<>>}
    ELSE {<<>>} \cup {<<c>> \o l : c \in SharedCmds, l \in Lists(n - 1)}

CommandLists ==
    {<<c>> : c \in Commands} \cup {l \in Lists(MaxCmds) : Len(l) >= 2}

---------------------------------------------------------------------------
(* State *)

VARIABLES
    command_bytestreams,  \* self.command_bytestreams
    read_bytestreams,     \* read_bytestreams of __update_read_bytestreams
    ram,                  \* self.mem_model.ram
    cmd,                  \* position of the for loop of __update_read_bytestreams
    pc,                   \* the code that runs next
    bytestream,           \* the argument of the parse function that is running
    idx,                  \* its loop index (0-based)
    addr_bytes,
    data_bytes,
    is_escaped,
    response,             \* the value __parse_bytestream returned
    error,                \* the exception that ended the run, "" if none
    command_value,        \* the argument of the __generate_command_bytes that is running
    command_bytes,        \* its local list
    byte_idx,             \* the loop counter of the field generator that is running
    interrupt_cmd,        \* what __generate_random_address_bytes returns second
    stack,                \* the callers of the __generate_command_bytes that is running
    data_in,              \* dut.data_in
    data_in_vld,          \* dut.data_in_vld
    gap,                  \* rising edges a driver has waited after a command
    seen                  \* the bytes the DUT sampled with data_in_vld high, in order

vars ==
    <<command_bytestreams, read_bytestreams, ram, cmd, pc, bytestream, idx,
      addr_bytes, data_bytes, is_escaped, response, error,
      command_value, command_bytes, byte_idx, interrupt_cmd, stack,
      data_in, data_in_vld, gap, seen>>

\* The variables of the drivers of the test bench
drivevars == <<data_in, data_in_vld, gap, seen>>

\* The variables of the generator and those of the parser
genvars == <<command_value, command_bytes, byte_idx, interrupt_cmd, stack>>

parsevars == <<read_bytestreams, ram, cmd, bytestream, idx, response, error>>

Init ==
    /\ command_bytestreams \in CommandLists
    /\ read_bytestreams = <<>>
    /\ ram = InitialRam
    /\ cmd = 1
    /\ pc = "update_read"
    /\ bytestream = <<>>
    /\ idx = 0
    /\ addr_bytes = <<>>
    /\ data_bytes = <<>>
    /\ is_escaped = FALSE
    /\ response = None
    /\ error = ""
    /\ command_value = NULL
    /\ command_bytes = <<>>
    /\ byte_idx = 0
    /\ interrupt_cmd = FALSE
    /\ stack = <<>>
    /\ data_in = 0
    /\ data_in_vld = FALSE
    /\ gap = 0
    /\ seen = <<>>

---------------------------------------------------------------------------
(* Steps shared by the parse functions *)

\* return <value> out of every nested parse call, back to __update_read_bytestreams
Return(value) ==
    /\ pc' = "return"
    /\ response' = value
    /\ UNCHANGED <<bytestream, idx, error>>

Raise(exception) ==
    /\ pc' = "raised"
    /\ error' = exception
    /\ UNCHANGED <<bytestream, idx, response>>

\* return self.__parse_xxx_bytestream(bytestream[idx + 1 :]) and the first lines of
\* the function called
Call(function) ==
    /\ pc' = function
    /\ bytestream' = Suffix(bytestream, idx)
    /\ idx' = 0
    /\ addr_bytes' = <<>>
    /\ data_bytes' = <<>>
    /\ is_escaped' = FALSE
    /\ UNCHANGED <<response, error>>

\* (mutant) the loop does not move on to the next byte
NextByteStuck ==
    /\ idx' = idx
    /\ UNCHANGED <<pc, bytestream, response, error>>
NextByte ==
    /\ idx' = idx + 1
    /\ UNCHANGED <<pc, bytestream, response, error>>

\* One iteration of the loop of __parse_write_bytestream or __parse_read_bytestream
\* while `field` (addr_bytes or data_bytes) is being collected
FieldStep(field, byte) ==
    LET what == Classify(is_escaped, byte) IN
    CASE what = "escape" ->
            /\ is_escaped' = TRUE
            /\ UNCHANGED <<addr_bytes, data_bytes>>
            /\ NextByte
      [] what \in {"append", "literal"} ->
            /\ is_escaped' = FALSE
            /\ IF field = "addr"
               THEN addr_bytes' = Append(addr_bytes, byte) /\ UNCHANGED data_bytes
               ELSE data_bytes' = Append(data_bytes, byte) /\ UNCHANGED addr_bytes
            /\ NextByte
      [] what = "break" ->
            /\ UNCHANGED <<addr_bytes, data_bytes, is_escaped>>
            /\ Return(None)
      [] what = "write" -> Call("parse_write")
      [] what = "read" -> Call("parse_read")
      [] OTHER ->
            /\ UNCHANGED <<addr_bytes, data_bytes, is_escaped>>
            /\ NextByte

---------------------------------------------------------------------------
(* __update_read_bytestreams: the head of its for loop and the call *)

UpdateReadNext ==
    /\ pc = "update_read"
    /\ UNCHANGED genvars
    /\ UNCHANGED drivevars
    /\ cmd <= Len(command_bytestreams)
    /\ pc' = "parse_bytestream"
    /\ bytestream' = command_bytestreams[cmd]
    /\ idx' = 0
    /\ addr_bytes' = <<>>
    /\ data_bytes' = <<>>
    /\ is_escaped' = FALSE
    /\ response' = None
    /\ UNCHANGED <<command_bytestreams, read_bytestreams, ram, cmd, error>>

\* self.read_bytestreams = read_bytestreams
UpdateReadDone ==
    /\ pc = "update_read"
    /\ UNCHANGED genvars
    /\ UNCHANGED drivevars
    /\ cmd > Len(command_bytestreams)
    /\ pc' = "done"
    /\ UNCHANGED <<command_bytestreams, read_bytestreams, ram, cmd, bytestream, idx,
                   addr_bytes, data_bytes, is_escaped, response, error>>

\* if response: ... the entry appended for it
UpdateReadAppend ==
    /\ pc = "return"
    /\ UNCHANGED genvars
    /\ UNCHANGED drivevars
    /\ read_bytestreams' = Entries(read_bytestreams, response)
    /\ cmd' = cmd + 1
    /\ pc' = "update_read"
    /\ UNCHANGED <<command_bytestreams, ram, bytestream, idx, addr_bytes, data_bytes,
                   is_escaped, response, error>>

---------------------------------------------------------------------------
(* __parse_bytestream *)

ParseBytestreamStep ==
    /\ pc = "parse_bytestream"
    /\ UNCHANGED genvars
    /\ UNCHANGED drivevars
    /\ idx < Len(bytestream)
    /\ LET byte == bytestream[idx + 1] IN
        IF idx = 0
        THEN IF byte = ESCAPE
             THEN NextByte /\ UNCHANGED <<addr_bytes, data_bytes, is_escaped>>
             ELSE Raise("AssertionError") /\ UNCHANGED <<addr_bytes, data_bytes, is_escaped>>
        ELSE IF byte = WRITE THEN Call("parse_write")
        ELSE IF byte = READ THEN Call("parse_read")
        ELSE NextByte /\ UNCHANGED <<addr_bytes, data_bytes, is_escaped>>
    /\ UNCHANGED <<command_bytestreams, read_bytestreams, ram, cmd>>

\* return None after the loop
ParseBytestreamEnd ==
    /\ pc = "parse_bytestream"
    /\ UNCHANGED genvars
    /\ UNCHANGED drivevars
    /\ idx = Len(bytestream)
    /\ Return(None)
    /\ UNCHANGED <<command_bytestreams, read_bytestreams, ram, cmd, addr_bytes,
                   data_bytes, is_escaped>>

---------------------------------------------------------------------------
(* __parse_write_bytestream *)

ParseWriteStep ==
    /\ pc = "parse_write"
    /\ UNCHANGED genvars
    /\ UNCHANGED drivevars
    /\ idx < Len(bytestream)
    /\ LET byte == bytestream[idx + 1] IN
        IF Len(addr_bytes) < num_addr_bytes THEN FieldStep("addr", byte)
        ELSE IF Len(data_bytes) < num_data_bytes THEN FieldStep("data", byte)
        ELSE NextByte /\ UNCHANGED <<addr_bytes, data_bytes, is_escaped>>
    /\ UNCHANGED <<command_bytestreams, read_bytestreams, ram, cmd>>

\* The code after the loop: convert, then self.mem_model.write(addr, data)
ParseWriteEnd ==
    /\ pc = "parse_write"
    /\ UNCHANGED genvars
    /\ UNCHANGED drivevars
    /\ idx = Len(bytestream)
    /\ IF ~AddrSliceOk(addr_bytes)
       THEN Raise("IndexError") /\ UNCHANGED ram
       ELSE IF ~(AddrInRange(AddrOf(addr_bytes)) /\ DataInRange(data_bytes))
       THEN Raise("AssertionError") /\ UNCHANGED ram
       ELSE /\ ram' = MemWrite(ram, AddrOf(addr_bytes), data_bytes)
            /\ Return(WriteReturn)
    /\ UNCHANGED <<command_bytestreams, read_bytestreams, cmd, addr_bytes, data_bytes,
                   is_escaped>>

---------------------------------------------------------------------------
(* __parse_read_bytestream *)

ParseReadStep ==
    /\ pc = "parse_read"
    /\ UNCHANGED genvars
    /\ UNCHANGED drivevars
    /\ idx < Len(bytestream)
    /\ LET byte == bytestream[idx + 1] IN
        IF Len(addr_bytes) < num_addr_bytes THEN FieldStep("addr", byte)
        ELSE NextByte /\ UNCHANGED <<addr_bytes, data_bytes, is_escaped>>
    /\ UNCHANGED <<command_bytestreams, read_bytestreams, ram, cmd>>

\* The code after the loop: convert, self.mem_model.read(addr), build read_bytes
ParseReadEnd ==
    /\ pc = "parse_read"
    /\ UNCHANGED genvars
    /\ UNCHANGED drivevars
    /\ idx = Len(bytestream)
    /\ IF ~AddrSliceOk(addr_bytes) THEN Raise("IndexError")
       ELSE IF ~AddrInRange(AddrOf(addr_bytes)) THEN Raise("AssertionError")
       ELSE Return(ReadBytes(MemRead(ram, AddrOf(addr_bytes))))
    /\ UNCHANGED <<command_bytestreams, read_bytestreams, ram, cmd, addr_bytes,
                   data_bytes, is_escaped>>

---------------------------------------------------------------------------
Next ==
    \/ UpdateReadNext
    \/ UpdateReadAppend
    \/ UpdateReadDone
    \/ ParseBytestreamStep
    \/ ParseBytestreamEnd
    \/ ParseWriteStep
    \/ ParseWriteEnd
    \/ ParseReadStep
    \/ ParseReadEnd

Spec == Init /\ [][Next]_vars

\* The parser is sequential code that nothing suspends: it takes its next step
FairSpec == Init /\ [][Next]_vars /\ WF_vars(Next)

---------------------------------------------------------------------------
(* The generator: __update_command_bytestreams, __generate_command_bytes and the *)
(* two field generators.  A call of __generate_command_bytes inside a field      *)
(* generator pushes the caller on `stack`; the return pops it and extends the    *)
(* caller's field with the bytes returned.                                       *)

\* self._command_values
command_values == {READ, WRITE, BREAK, ESCAPE}

\* The number of command bytestreams asked for
num_cmds == 1

\* (mutant) the generator draws every byte of the four-byte address field
addr_num_bytes_field == num_addr_bytes
\* num_bytes of __generate_random_address_bytes
addr_num_bytes == (addr_w + byte_w - 1) \div byte_w

choice_addrs_msb == {0, ESCAPE}

\* The draws of random.choice(choice_addrs_lsb) the model follows: a mapped
\* address, the unmapped 42, and two of the command values
choice_addrs_lsb == {1, 42, BREAK, ESCAPE}

\* The draws of random.randint(0, 2**self.byte_w - 1) the model follows
data_byte_draws == {255, ESCAPE}

RECURSIVE StackBytes(_)
StackBytes(st) ==
    IF st = <<>> THEN <<>>
    ELSE st[1].command_bytes \o st[1].field \o StackBytes(Tail(st))

\* The bytes generated so far for the bytestream, after its opcode
Generated == StackBytes(stack) \o command_bytes \o addr_bytes \o data_bytes

\* The draw of an ESCAPE is followed while the bytestream has few of them
MayEscape == Cardinality({i \in DOMAIN Generated : Generated[i] = ESCAPE}) < MaxEsc

\* (mutant) the data field follows the address field of every WRITE
DataFollowsAlways(command_value_, interrupt_cmd_) == command_value_ = WRITE
\* elif command_value == WRITE ... if not interrupt_cmd
DataFollows(command_value_, interrupt_cmd_) == command_value_ = WRITE /\ ~interrupt_cmd_

\* self.__generate_command_bytes(value), called by `caller`, up to the first line
\* of the field generator it calls
GenCall(value, caller) ==
    /\ stack' = Append(stack, caller)
    /\ command_value' = value
    /\ command_bytes' = <<>>
    /\ data_bytes' = <<>>
    /\ is_escaped' = FALSE
    /\ interrupt_cmd' = FALSE
    /\ byte_idx' = 0
    /\ IF value \in {READ, WRITE}
       THEN pc' = "gen_addr" /\ addr_bytes' = <<0, 0>>
       ELSE pc' = "gen_return" /\ addr_bytes' = <<>>

\* The escaped branch of a field generator: the escort is appended to `bytes`, the
\* field so far; an escort other than ESCAPE starts a nested command
Escort(bytes, escort, fn) ==
    IF escort = ESCAPE
    THEN /\ IF fn = "addr"
            THEN addr_bytes' = Append(bytes, escort) /\ UNCHANGED data_bytes
            ELSE data_bytes' = Append(bytes, escort) /\ UNCHANGED addr_bytes
         /\ is_escaped' = FALSE
         /\ byte_idx' = byte_idx + 1
         /\ UNCHANGED <<pc, command_value, command_bytes, interrupt_cmd, stack>>
    ELSE GenCall(escort, [fn |-> fn, command_value |-> command_value,
                         command_bytes |-> command_bytes, field |-> Append(bytes, escort)])

\* for idx in range(num_cmds): command_bytestreams.append([ESCAPE])
UpdateCommandNext ==
    /\ pc = "update_command"
    /\ Len(command_bytestreams) < num_cmds
    /\ command_bytestreams' = Append(command_bytestreams, <<ESCAPE>>)
    /\ pc' = "command_type"
    /\ UNCHANGED <<addr_bytes, data_bytes, is_escaped>>
    /\ UNCHANGED genvars
    /\ UNCHANGED parsevars
    /\ UNCHANGED drivevars

\* self.command_bytestreams = command_bytestreams, then __update_read_bytestreams
UpdateCommandDone ==
    /\ pc = "update_command"
    /\ Len(command_bytestreams) = num_cmds
    /\ pc' = "update_read"
    /\ UNCHANGED <<command_bytestreams, addr_bytes, data_bytes, is_escaped>>
    /\ UNCHANGED genvars
    /\ UNCHANGED parsevars
    /\ UNCHANGED drivevars

\* One iteration of while not bytestream_complete
CommandType ==
    /\ pc = "command_type"
    /\ \E command_type \in command_values \cup {0} :
        LET n == Len(command_bytestreams) IN
        /\ command_type = 0 => Len(command_bytestreams[n]) <= MaxPad
        /\ command_bytestreams' = [command_bytestreams EXCEPT ![n] = Append(@, command_type)]
        /\ IF command_type = 0
           THEN UNCHANGED <<pc, addr_bytes, data_bytes, is_escaped>> /\ UNCHANGED genvars
           ELSE GenCall(command_type, [fn |-> "update", command_value |-> NULL,
                                      command_bytes |-> <<>>, field |-> <<>>])
    /\ UNCHANGED parsevars
    /\ UNCHANGED drivevars

\* One iteration of the loop of __generate_random_address_bytes
GenAddrStep ==
    /\ pc = "gen_addr"
    /\ byte_idx < addr_num_bytes
    /\ IF is_escaped
       THEN \E escort \in command_values : Escort(addr_bytes, escort, "addr")
       ELSE \E addr_byte \in (IF byte_idx = 0 THEN choice_addrs_msb ELSE choice_addrs_lsb) :
            IF addr_byte # ESCAPE
            THEN /\ addr_bytes' = Append(addr_bytes, addr_byte)
                 /\ byte_idx' = byte_idx + 1
                 /\ UNCHANGED <<pc, data_bytes, is_escaped, command_value, command_bytes,
                                interrupt_cmd, stack>>
            ELSE /\ MayEscape
                 /\ IF byte_idx = 0
                    THEN \E escort \in command_values :
                            Escort(Append(addr_bytes, addr_byte), escort, "addr")
                    ELSE /\ addr_bytes' = Append(addr_bytes, addr_byte)
                         /\ is_escaped' = TRUE
                         /\ UNCHANGED <<pc, data_bytes, byte_idx, command_value,
                                        command_bytes, interrupt_cmd, stack>>
    /\ UNCHANGED command_bytestreams
    /\ UNCHANGED parsevars
    /\ UNCHANGED drivevars

\* return tuple([addr_bytes, interrupt_cmd]), and what __generate_command_bytes
\* does with it
GenAddrReturn ==
    /\ pc = "gen_addr"
    /\ byte_idx >= addr_num_bytes
    /\ command_bytes' = command_bytes \o addr_bytes
    /\ addr_bytes' = <<>>
    /\ IF DataFollows(command_value, interrupt_cmd)
       THEN pc' = "gen_data" /\ byte_idx' = 0
       ELSE pc' = "gen_return" /\ UNCHANGED byte_idx
    /\ UNCHANGED <<command_bytestreams, data_bytes, is_escaped, command_value,
                   interrupt_cmd, stack>>
    /\ UNCHANGED parsevars
    /\ UNCHANGED drivevars

\* One iteration of the loop of __generate_random_data_bytes
GenDataStep ==
    /\ pc = "gen_data"
    /\ byte_idx < num_data_bytes
    /\ IF is_escaped
       THEN \E escort \in command_values : Escort(data_bytes, escort, "data")
       ELSE \E data_byte \in data_byte_draws :
            /\ data_byte = ESCAPE => MayEscape
            /\ data_bytes' = Append(data_bytes, data_byte)
            /\ is_escaped' = (data_byte = ESCAPE)
            /\ byte_idx' = IF data_byte = ESCAPE THEN byte_idx ELSE byte_idx + 1
            /\ UNCHANGED <<pc, addr_bytes, command_value, command_bytes, interrupt_cmd, stack>>
    /\ UNCHANGED command_bytestreams
    /\ UNCHANGED parsevars
    /\ UNCHANGED drivevars

\* return data_bytes, and command_bytes.extend of it
GenDataReturn ==
    /\ pc = "gen_data"
    /\ byte_idx >= num_data_bytes
    /\ command_bytes' = command_bytes \o data_bytes
    /\ data_bytes' = <<>>
    /\ pc' = "gen_return"
    /\ UNCHANGED <<command_bytestreams, addr_bytes, is_escaped, command_value, byte_idx,
                   interrupt_cmd, stack>>
    /\ UNCHANGED parsevars
    /\ UNCHANGED drivevars

\* return command_bytes: the caller extends its list with it and ends its loop
GenReturn ==
    /\ pc = "gen_return"
    /\ LET caller == stack[Len(stack)]
           n == Len(command_bytestreams)
       IN /\ stack' = SubSeq(stack, 1, Len(stack) - 1)
          /\ command_value' = caller.command_value
          /\ command_bytes' = caller.command_bytes
          /\ is_escaped' = FALSE
          /\ CASE caller.fn = "update" ->
                    /\ command_bytestreams' =
                            [command_bytestreams EXCEPT ![n] = @ \o command_bytes]
                    /\ pc' = "update_command"
                    /\ addr_bytes' = <<>>
                    /\ data_bytes' = <<>>
                    /\ byte_idx' = 0
                    /\ interrupt_cmd' = FALSE
               [] caller.fn = "addr" ->
                    /\ addr_bytes' = caller.field \o command_bytes
                    /\ byte_idx' = addr_num_bytes
                    /\ interrupt_cmd' = TRUE
                    /\ pc' = "gen_addr"
                    /\ data_bytes' = <<>>
                    /\ UNCHANGED command_bytestreams
               [] caller.fn = "data" ->
                    /\ data_bytes' = caller.field \o command_bytes
                    /\ byte_idx' = num_data_bytes
                    /\ interrupt_cmd' = FALSE
                    /\ pc' = "gen_data"
                    /\ addr_bytes' = <<>>
                    /\ UNCHANGED command_bytestreams
    /\ UNCHANGED parsevars
    /\ UNCHANGED drivevars

\* RegisterFsmModel(num_cmds, data_w, addr_w) at the call of update_bytestreams
GenInit ==
    /\ command_bytestreams = <<>>
    /\ read_bytestreams = <<>>
    /\ ram = InitialRam
    /\ cmd = 1
    /\ pc = "update_command"
    /\ bytestream = <<>>
    /\ idx = 0
    /\ addr_bytes = <<>>
    /\ data_bytes = <<>>
    /\ is_escaped = FALSE
    /\ response = None
    /\ error = ""
    /\ command_value = NULL
    /\ command_bytes = <<>>
    /\ byte_idx = 0
    /\ interrupt_cmd = FALSE
    /\ stack = <<>>
    /\ data_in = 0
    /\ data_in_vld = FALSE
    /\ gap = 0
    /\ seen = <<>>

GenNext ==
    \/ UpdateCommandNext
    \/ UpdateCommandDone
    \/ CommandType
    \/ GenAddrStep
    \/ GenAddrReturn
    \/ GenDataStep
    \/ GenDataReturn
    \/ GenReturn
    \/ Next

GenSpec == GenInit /\ [][GenNext]_vars

---------------------------------------------------------------------------
(* The drivers of the test bench: drive_cmds and drive_cmds_random_vlds.  Each   *)
(* action but the two that start a driver is one rising edge of dut.clk, at      *)
(* which the DUT samples data_in and data_in_vld as they were set before it,     *)
(* followed by the code of the driver up to its next await.  The falling edge    *)
(* drive_cmds waits for and its assertion on the DUT's state are left out: they  *)
(* set no input of the DUT.                                                      *)

\* for _ in range(8)
gap_cycles == 8

\* The first two commands of test_simple_cases and test_simple_random_vlds
DriveCmds == {<<231, 19, 0, 0, 0, 3>>, <<231, 19, 0, 0, 0, 231, 231>>}

RECURSIVE DriveLists(_)
DriveLists(n) ==
    IF n = 0 THEN {<<>>}
    ELSE {<<>>} \cup {<<c>> \o l : c \in DriveCmds, l \in DriveLists(n - 1)}

\* What the variables outside the drivers keep
idlevars ==
    <<command_bytestreams, read_bytestreams, ram, bytestream, idx, addr_bytes, data_bytes,
      is_escaped, response, error, command_value, command_bytes, interrupt_cmd, stack>>

\* The rising edge: the DUT takes data_in when data_in_vld is high
Sample == seen' = IF data_in_vld THEN Append(seen, data_in) ELSE seen

\* dut.data_in.value = byte; dut.data_in_vld.value = 1
Present(byte) == data_in' = byte /\ data_in_vld' = TRUE

\* One iteration of the while loop of drive_cmds_random_vlds on the command c, up
\* to its await: the byte is shown, or data_in_vld is lowered
RandomIteration(c, shown) ==
    \E r \in {0, 1} :
        IF r = 1
        THEN Present(c[shown + 1]) /\ byte_idx' = shown + 1
        ELSE data_in_vld' = FALSE /\ data_in' = data_in /\ byte_idx' = shown

\* drive_cmds up to the first await
DriveStart ==
    /\ pc = "drive_cmds"
    /\ Present(command_bytestreams[cmd][1])
    /\ byte_idx' = 1
    /\ pc' = "drive_byte"
    /\ UNCHANGED <<cmd, gap, seen>>
    /\ UNCHANGED idlevars

\* await RisingEdge(dut.clk) of the byte loop of drive_cmds
DriveByteEdge ==
    /\ pc = "drive_byte"
    /\ Sample
    /\ IF byte_idx < Len(command_bytestreams[cmd])
       THEN /\ Present(command_bytestreams[cmd][byte_idx + 1])
            /\ byte_idx' = byte_idx + 1
            /\ UNCHANGED <<pc, gap>>
       ELSE /\ data_in_vld' = FALSE
            /\ pc' = "drive_gap"
            /\ gap' = 0
            /\ UNCHANGED <<data_in, byte_idx>>
    /\ UNCHANGED cmd
    /\ UNCHANGED idlevars

\* await RisingEdge(dut.clk) of the gap loop of drive_cmds
DriveGapEdge ==
    /\ pc = "drive_gap"
    /\ Sample
    /\ IF gap + 1 < gap_cycles
       THEN gap' = gap + 1 /\ UNCHANGED <<pc, cmd, byte_idx, data_in, data_in_vld>>
       ELSE /\ gap' = 0
            /\ IF cmd < Len(command_bytestreams)
               THEN /\ cmd' = cmd + 1
                    /\ Present(command_bytestreams[cmd + 1][1])
                    /\ byte_idx' = 1
                    /\ pc' = "drive_byte"
               ELSE /\ data_in_vld' = FALSE
                    /\ pc' = "drive_done"
                    /\ UNCHANGED <<cmd, byte_idx, data_in>>
    /\ UNCHANGED idlevars

\* drive_cmds_random_vlds up to the first await
RandomStart ==
    /\ pc = "drive_cmds_random_vlds"
    /\ RandomIteration(command_bytestreams[cmd], 0)
    /\ pc' = "random_byte"
    /\ UNCHANGED <<cmd, gap, seen>>
    /\ UNCHANGED idlevars

\* await RisingEdge(dut.clk) of the while loop of drive_cmds_random_vlds
RandomByteEdge ==
    /\ pc = "random_byte"
    /\ Sample
    /\ IF byte_idx < Len(command_bytestreams[cmd])
       THEN RandomIteration(command_bytestreams[cmd], byte_idx) /\ UNCHANGED <<pc, gap>>
       ELSE /\ pc' = "random_gap"
            /\ gap' = 0
            /\ UNCHANGED <<data_in, data_in_vld, byte_idx>>
    /\ UNCHANGED cmd
    /\ UNCHANGED idlevars

\* await RisingEdge(dut.clk) of the gap loop of drive_cmds_random_vlds
RandomGapEdge ==
    /\ pc = "random_gap"
    /\ Sample
    /\ IF gap + 1 < gap_cycles
       THEN gap' = gap + 1 /\ UNCHANGED <<pc, cmd, byte_idx, data_in, data_in_vld>>
       ELSE /\ gap' = 0
            /\ IF cmd < Len(command_bytestreams)
               THEN /\ cmd' = cmd + 1
                    /\ RandomIteration(command_bytestreams[cmd + 1], 0)
                    /\ pc' = "random_byte"
               ELSE /\ data_in_vld' = FALSE
                    /\ pc' = "random_done"
                    /\ UNCHANGED <<cmd, byte_idx, data_in>>
    /\ UNCHANGED idlevars

\* After reset_dut: a driver is started on the commands of a test
DriveInit ==
    /\ command_bytestreams \in {l \in DriveLists(MaxCmds) : l # <<>>}
    /\ pc \in {"drive_cmds", "drive_cmds_random_vlds"}
    /\ cmd = 1
    /\ byte_idx = 0
    /\ data_in = 0
    /\ data_in_vld = FALSE
    /\ gap = 0
    /\ seen = <<>>
    /\ read_bytestreams = <<>>
    /\ ram = InitialRam
    /\ bytestream = <<>>
    /\ idx = 0
    /\ addr_bytes = <<>>
    /\ data_bytes = <<>>
    /\ is_escaped = FALSE
    /\ response = None
    /\ error = ""
    /\ command_value = NULL
    /\ command_bytes = <<>>
    /\ interrupt_cmd = FALSE
    /\ stack = <<>>

DriveNext ==
    \/ DriveStart
    \/ DriveByteEdge
    \/ DriveGapEdge
    \/ RandomStart
    \/ RandomByteEdge
    \/ RandomGapEdge

DriveSpec == DriveInit /\ [][DriveNext]_vars

---------------------------------------------------------------------------
(* Vocabulary of the properties.  It is written from the wire format and is   *)
(* independent of the operators the actions use.                              *)

Bytes(s) == {s[i] : i \in DOMAIN s}

ParseFns == {"parse_write", "parse_read"}

\* The address a four-byte logical address field names: its low addr_w bits
FieldAddr(l) == l[3] * 256 + l[4]

\* The run parses the single bytestream c on a fresh store
Single(c) == command_bytestreams = <<c>>

\* The response bytestream of READ(a) on the store st
ReadResponse(st, a) ==
    IF a \in valid_addrs THEN <<ESCAPE, READ_DATA>> \o Wire(st[a]) ELSE <<ESCAPE, BREAK>>

\* The store after WRITE(a, d) on the store st
WriteResult(st, a, d) == IF a \in valid_addrs THEN [st EXCEPT ![a] = d] ELSE st

\* A field of a WRITE frame cut short: part of the address, or the address and part
\* of the data
WritePrefixes == AddrPrefixes \cup {<<0, 0, 0, 1>> \o p : p \in DataPrefixes}

\* The number of ESCAPE bytes of a sequence
RECURSIVE NumEscape(_)
NumEscape(s) ==
    IF s = <<>> THEN 0 ELSE (IF Head(s) = ESCAPE THEN 1 ELSE 0) + NumEscape(Tail(s))

\* The loop of a parse function is at a byte of a field that is not complete yet
InField ==
    /\ pc \in ParseFns
    /\ idx < Len(bytestream)
    /\ \/ Len(addr_bytes) < num_addr_bytes
       \/ pc = "parse_write" /\ Len(data_bytes) < num_data_bytes

\* ... and that byte is the escort of an ESCAPE
AtEscort == InField /\ is_escaped

---------------------------------------------------------------------------
(* C1 *)

\* C1 as stated: ESCAPE, READ and four unstuffed address bytes of a mapped address a
\* yield ESCAPE, READ_DATA and then exactly the four bytes of the value at a.
C1_ReadMappedRawBytes ==
    \A l \in LogicalAddrs :
        (/\ ESCAPE \notin Bytes(l)
         /\ FieldAddr(l) \in valid_addrs
         /\ Single(<<ESCAPE, READ>> \o l)
         /\ pc = "done")
        => read_bytestreams = << <<ESCAPE, READ_DATA>> \o InitialRam[FieldAddr(l)] >>

\* C1, amended: with address width 16, data width 32 and a fresh store, ESCAPE, READ
\* and four unstuffed address bytes of a mapped address a yield ESCAPE, READ_DATA and
\* then the four bytes of the value at a, most significant first, each byte that
\* equals ESCAPE sent twice; [0xE7,0x13,0,0,0,3] yields [0xE7,0x03,0x10,0x20,0x30,0x40].
C1_ReadMapped ==
    /\ \A l \in LogicalAddrs :
        (/\ ESCAPE \notin Bytes(l)
         /\ FieldAddr(l) \in valid_addrs
         /\ Single(<<ESCAPE, READ>> \o l)
         /\ pc = "done")
        => read_bytestreams = << <<ESCAPE, READ_DATA>> \o Wire(InitialRam[FieldAddr(l)]) >>
    /\ (Single(<<231, 19, 0, 0, 0, 3>>) /\ pc = "done")
        => read_bytestreams = << <<231, 3, 16, 32, 48, 64>> >>

C1_Witness ==
    /\ Single(<<231, 19, 0, 0, 0, 1>>)
    /\ pc = "done"
    /\ read_bytestreams = << <<231, 3, 137, 171, 205, 231, 231>> >>

---------------------------------------------------------------------------
(* C2 *)

\* C2: in the address field of a READ or WRITE frame the pair ESCAPE, ESCAPE is one
\* literal address byte 231: it fills one byte slot and the frame goes on, so the
\* field Wire(l) is collected as l, the frame reads or writes the address of l, and
\* [0xE7,0x13,0,0,0,0xE7,0xE7] yields [0xE7,0x03,0xDE,0xAD,0xBE,0xEF].
C2_EscapedAddressByte ==
    /\ \A l \in LogicalAddrs :
        (ESCAPE \in Bytes(l) /\ Single(<<ESCAPE, READ>> \o Wire(l)))
        => /\ (pc = "parse_read" /\ idx = Len(bytestream)) => addr_bytes = l
           /\ pc = "done" => read_bytestreams = <<ReadResponse(InitialRam, FieldAddr(l))>>
           /\ pc # "raised"
    /\ \A l \in WriteAddrs, d \in DataVals \ {MaxWord} :
        (ESCAPE \in Bytes(l) /\ Single(<<ESCAPE, WRITE>> \o Wire(l) \o Wire(d)))
        => /\ (pc = "parse_write" /\ idx = Len(bytestream))
                => (addr_bytes = l /\ data_bytes = d)
           /\ pc = "done"
                => (ram = WriteResult(InitialRam, FieldAddr(l), d) /\ read_bytestreams = <<>>)
           /\ pc # "raised"
    /\ (Single(<<231, 19, 0, 0, 0, 231, 231>>) /\ pc = "done")
        => read_bytestreams = << <<231, 3, 222, 173, 190, 239>> >>

C2_Witness ==
    /\ Single(<<231, 19, 0, 0, 0, 231, 231>>)
    /\ pc = "done"
    /\ read_bytestreams = << <<231, 3, 222, 173, 190, 239>> >>

---------------------------------------------------------------------------
(* C3 *)

\* C3: a complete WRITE(a, v) frame followed at once by a complete READ(a) frame, on
\* a fresh store, for a mapped address a and every data_w-bit value v: the run ends
\* without an error and its response is ESCAPE, READ_DATA and the data field of v.
C3_RoundTrip ==
    \A l \in WriteAddrs, v \in DataVals :
        (/\ FieldAddr(l) \in valid_addrs
         /\ Single(<<ESCAPE, WRITE>> \o Wire(l) \o Wire(v) \o <<ESCAPE, READ>> \o Wire(l)))
        => /\ pc # "raised"
           /\ pc = "done" => read_bytestreams = << <<ESCAPE, READ_DATA>> \o Wire(v) >>

---------------------------------------------------------------------------
(* C4 *)

\* C4: a complete READ(a) frame followed by a complete ESCAPE, READ, b frame: the
\* response of the bytestream is the response of READ(a) followed by that of READ(b).
C4_ChainedFrames ==
    \A l \in LogicalAddrs, x \in {1, 2, 42, ESCAPE} :
        (/\ Single(<<ESCAPE, READ>> \o Wire(l) \o <<ESCAPE, READ>> \o Wire(<<0, 0, 0, x>>))
         /\ pc = "done")
        => read_bytestreams =
            <<ReadResponse(InitialRam, FieldAddr(l)) \o ReadResponse(InitialRam, x)>>

---------------------------------------------------------------------------
(* C5 *)

\* C5: after the WRITE to address 1 is aborted by ESCAPE, BREAK the parser goes on at
\* the next ESCAPE: the test vector yields [0xE7,0x03,0x89,0xAB,0xCD,0xE7,0xE7] and
\* address 1 keeps its preload.
C5_ResumeAfterAbort ==
    (/\ Single(<<231, 35, 0, 0, 0, 1, 170, 231, 85, 231, 19, 0, 0, 0, 1>>)
     /\ pc = "done")
    => /\ read_bytestreams = << <<231, 3, 137, 171, 205, 231, 231>> >>
       /\ ram[1] = <<137, 171, 205, 231>>

---------------------------------------------------------------------------
(* C6 *)

\* C6: a WRITE frame whose address or data field is cut by ESCAPE, READ and a
\* complete address b writes nothing and adds no response bytes: the response of the
\* bytestream is that of a fresh ESCAPE, READ, b frame on the same store.  An ESCAPE,
\* WRITE escort starts a fresh WRITE frame at the byte after the escort.  The step
\* that takes the escort leaves the store and the response alone and hands the bytes
\* after the escort to the new frame; no loop iteration of a frame changes the store.
C6_InterruptFinal ==
    /\ \A p \in WritePrefixes, x \in {1, 2, 42, ESCAPE} :
        (Single(<<ESCAPE, WRITE>> \o p \o <<ESCAPE, READ>> \o Wire(<<0, 0, 0, x>>)))
        => /\ pc # "raised"
           /\ pc = "done"
                => (ram = InitialRam /\ read_bytestreams = <<ReadResponse(InitialRam, x)>>)
    /\ \A p \in WritePrefixes, x \in {1, 2, 42, ESCAPE} :
        (/\ pc = "update_read"
         /\ cmd > 1
         /\ command_bytestreams[cmd - 1]
                = <<ESCAPE, WRITE>> \o p \o <<ESCAPE, READ>> \o Wire(<<0, 0, 0, x>>))
        => (/\ read_bytestreams # <<>>
            /\ read_bytestreams[Len(read_bytestreams)] = ReadResponse(ram, x))
    /\ \A p \in WritePrefixes :
        (Single(<<ESCAPE, WRITE>> \o p \o <<ESCAPE, WRITE, 0, 0, 0, 2, 170, 231, 231, 85, 170>>))
        => /\ pc # "raised"
           /\ pc = "done"
                => /\ ram = WriteResult(InitialRam, 2, <<170, 231, 85, 170>>)
                   /\ read_bytestreams = <<>>

C6_InterruptStep ==
    /\ (pc \in ParseFns /\ idx < Len(bytestream)) => ram' = ram
    /\ (AtEscort /\ bytestream[idx + 1] \in {READ, WRITE})
        => (/\ pc' = (IF bytestream[idx + 1] = READ THEN "parse_read" ELSE "parse_write")
            /\ bytestream' = SubSeq(bytestream, idx + 2, Len(bytestream))
            /\ idx' = 0
            /\ addr_bytes' = <<>> /\ data_bytes' = <<>> /\ ~is_escaped'
            /\ ram' = ram
            /\ response' = response
            /\ read_bytestreams' = read_bytestreams)

C6_InterruptResync == []C6_InterruptFinal /\ [][C6_InterruptStep]_vars

C6_Witness ==
    /\ Single(<<231, 35, 0, 0, 0, 1, 170, 231, 19, 0, 0, 0, 2>>)
    /\ pc = "done"
    /\ ram = InitialRam
    /\ read_bytestreams = << <<231, 3, 10, 11, 12, 13>> >>

---------------------------------------------------------------------------
(* C7 *)

\* C7: a READ or WRITE frame whose address or data field meets ESCAPE, BREAK before
\* the field is complete adds no response bytes, not even BREAK, and leaves every
\* store word as it was: the loop iterations of a frame never change the store, the
\* step that takes the BREAK escort returns with no response and the store as it
\* is, and no entry is appended for it.
C7_AbortFinal ==
    \A p \in Pads :
        /\ \A q \in AddrPrefixes :
            (Single(<<ESCAPE>> \o p \o <<READ>> \o q \o <<ESCAPE, BREAK>>) /\ pc = "done")
            => (read_bytestreams = <<>> /\ ram = InitialRam)
        /\ \A q \in WritePrefixes :
            (Single(<<ESCAPE>> \o p \o <<WRITE>> \o q \o <<ESCAPE, BREAK>>) /\ pc = "done")
            => (read_bytestreams = <<>> /\ ram = InitialRam)

C7_AbortStep ==
    /\ (pc \in ParseFns /\ idx < Len(bytestream)) => ram' = ram
    /\ (AtEscort /\ bytestream[idx + 1] = BREAK)
        => (pc' = "return" /\ response' = None /\ read_bytestreams' = read_bytestreams)
    /\ (pc = "return" /\ response = None)
        => (read_bytestreams' = read_bytestreams /\ ram' = ram /\ pc' = "update_read")

C7_AbortSilence == []C7_AbortFinal /\ [][C7_AbortStep]_vars

\* An abort in the data field of a WRITE of a run of several bytestreams
C7_Witness ==
    /\ pc = "return"
    /\ Len(command_bytestreams) > 1
    /\ is_escaped
    /\ idx < Len(bytestream)
    /\ bytestream[idx + 1] = BREAK
    /\ Len(addr_bytes) = num_addr_bytes
    /\ Len(data_bytes) = 1
    /\ response = None

---------------------------------------------------------------------------
(* C8 *)

\* C8 as stated: an ESCAPE followed by an escort other than ESCAPE, BREAK, READ and
\* WRITE aborts the frame as BREAK does, so no frame is still being parsed, and still
\* waiting for an escort, after such an escort was taken.
C8_UnknownEscortAborts ==
    ~(/\ pc \in ParseFns
      /\ is_escaped
      /\ idx >= 1
      /\ bytestream[idx] \notin {ESCAPE, BREAK, READ, WRITE})

\* C8, amended: inside an address or data field, an ESCAPE followed by an escort that
\* is NULL or any value other than ESCAPE, BREAK, READ and WRITE does not abort the
\* frame: the escort is skipped with no response and no store write, the frame stays
\* escaped and keeps what it collected, and the next byte is taken as the escort.
C8_UnknownEscortStep ==
    (AtEscort /\ bytestream[idx + 1] \notin {ESCAPE, BREAK, READ, WRITE})
    => (/\ pc' = pc
        /\ is_escaped'
        /\ idx' = idx + 1
        /\ bytestream' = bytestream
        /\ addr_bytes' = addr_bytes /\ data_bytes' = data_bytes
        /\ ram' = ram
        /\ response' = response
        /\ read_bytestreams' = read_bytestreams)

C8_UnknownEscortSkipped == [][C8_UnknownEscortStep]_vars

\* The NULL escort was skipped and the ESCAPE after it was taken as the escort: a
\* literal 231 in the address
C8_Witness ==
    /\ Single(<<231, 19, 0, 231, 0, 231, 19, 0, 0, 0, 1>>)
    /\ pc = "parse_read"
    /\ addr_bytes = <<0, 231, 19, 0>>

---------------------------------------------------------------------------
(* C9 *)

\* A bytestream that is one complete READ frame of an address outside the mapped set
ReadUnmapped(c) ==
    \E p \in Pads, l \in LogicalAddrs :
        /\ FieldAddr(l) \notin valid_addrs
        /\ c = <<ESCAPE>> \o p \o <<READ>> \o Wire(l)

\* C9: a complete READ frame of an in-range address outside the mapped set yields
\* ESCAPE, BREAK and nothing else, whatever was written before, and raises no error.
C9_ReadUnmapped ==
    /\ (pc \in {"return", "raised"} /\ ReadUnmapped(command_bytestreams[cmd]))
        => (pc = "return" /\ response = <<BREAK>>)
    /\ (pc = "update_read" /\ cmd > 1 /\ ReadUnmapped(command_bytestreams[cmd - 1]))
        => (/\ read_bytestreams # <<>>
            /\ read_bytestreams[Len(read_bytestreams)] = <<ESCAPE, BREAK>>)

\* READ(42) after a WRITE to 42 in an earlier bytestream
C9_Witness ==
    /\ pc = "done"
    /\ command_bytestreams =
        << <<231, 35, 0, 0, 0, 42, 1, 2, 3, 4>>, <<231, 19, 0, 0, 0, 42>> >>
    /\ read_bytestreams = << <<231, 85>> >>

---------------------------------------------------------------------------
(* C10 *)

\* C10: a complete WRITE frame to an in-range address outside the mapped set, with
\* any data value 0 .. 2^data_w - 1, raises no error and leaves the value at every
\* mapped address as it was.
C10_WriteUnmapped ==
    \A l \in WriteAddrs, d \in DataVals :
        (/\ FieldAddr(l) \notin valid_addrs
         /\ Single(<<ESCAPE, WRITE>> \o Wire(l) \o Wire(d)))
        => /\ pc # "raised"
           /\ \A a \in valid_addrs : ram[a] = InitialRam[a]

---------------------------------------------------------------------------
(* C11 *)

\* The bytestreams whose only completed frame is a WRITE: the frame alone, the
\* frame followed by an aborted READ, or the frame after a WRITE frame it interrupted
WriteOnlyCmds ==
    {<<ESCAPE>> \o p \o <<WRITE>> \o Wire(l) \o Wire(d) \o t :
        p \in Pads, l \in WriteAddrs, d \in DataVals,
        t \in {<<>>, <<ESCAPE, READ, 0, ESCAPE, BREAK>>}}
    \cup {<<ESCAPE>> \o p \o <<WRITE>> \o q \o <<ESCAPE, WRITE, 0, 0, 0, 2>> \o Wire(d) :
            p \in Pads, q \in WritePrefixes, d \in DataVals}

WriteOnly(c) == c \in WriteOnlyCmds

\* C11: a bytestream whose only completed frame is a WRITE, to a mapped address or
\* not, produces no response: the parser returns None for it and no response
\* bytestream is appended.
C11_WriteSilent ==
    /\ (Len(command_bytestreams) = 1 /\ WriteOnly(command_bytestreams[1]))
        => (response = None /\ read_bytestreams = <<>>)
    /\ (pc = "return" /\ WriteOnly(command_bytestreams[cmd])) => response = None

\* The WRITE to the unmapped address 42 has been parsed to its end
C11_Witness ==
    /\ Single(<<231, 35, 0, 0, 0, 42, 170, 231, 231, 85, 170>>)
    /\ pc = "done"
    /\ read_bytestreams = <<>>

---------------------------------------------------------------------------
(* C12 *)

\* C12: with address width 16 and data width 32, the parser completes on every
\* command bytestream the generator produces, WRITE frames of any four data bytes
\* included, without an assertion failure or another exception.
C12_NoException == error = ""

---------------------------------------------------------------------------
(* C13 *)

\* The address of the READ frame a command of SharedCmds completes, -1 if it
\* completes none: the READ may have interrupted a WRITE frame
ReadAddr(c) ==
    LET reads == {a \in RamAddrs :
                    \E q \in {<<>>, <<WRITE, 0, 0, 0, 1, 170, ESCAPE>>} :
                        c = <<ESCAPE>> \o q \o <<READ, 0, 0, 0, a>>}
    IN IF reads = {} THEN -1 ELSE CHOOSE a \in reads : TRUE

\* The number of commands among the first n of l that complete a READ frame
RECURSIVE NumResponding(_, _)
NumResponding(l, n) ==
    IF n = 0 THEN 0
    ELSE NumResponding(l, n - 1) + (IF ReadAddr(l[n]) >= 0 THEN 1 ELSE 0)

FromShared == \A i \in DOMAIN command_bytestreams : command_bytestreams[i] \in SharedCmds

\* C13 as stated: when update_bytestreams has returned, read_bytestreams has one
\* entry for every entry of command_bytestreams.
C13_OneEntryPerCommand ==
    pc = "done" => Len(read_bytestreams) = Len(command_bytestreams)

\* C13, amended: read_bytestreams has one entry, never empty, for every command
\* bytestream that produced a response, in the order of the commands, and none for
\* the others; so its i-th entry is the response of the i-th command that has one.
C13_OneEntryPerResponse ==
    (FromShared /\ pc \in {"update_read", "done"})
        => /\ Len(read_bytestreams) = NumResponding(command_bytestreams, cmd - 1)
           /\ \A i \in DOMAIN read_bytestreams : read_bytestreams[i] # <<>>
           /\ (cmd > 1 /\ ReadAddr(command_bytestreams[cmd - 1]) >= 0)
                => LET last == read_bytestreams[Len(read_bytestreams)] IN
                   IF ReadAddr(command_bytestreams[cmd - 1]) \in valid_addrs
                   THEN SubSeq(last, 1, 2) = <<ESCAPE, READ_DATA>> /\ Len(last) >= 6
                   ELSE last = <<ESCAPE, BREAK>>

\* Three commands, of which only the second has a response
C13_Witness ==
    /\ pc = "done"
    /\ command_bytestreams =
        << <<231, 35, 0, 0, 0, 2, 9, 9, 9, 9>>, <<231, 19, 0, 0, 0, 2>>,
           <<231, 35, 0, 0, 0, 42, 1, 2, 3, 4>> >>
    /\ read_bytestreams = << <<231, 3, 9, 9, 9, 9>> >>

---------------------------------------------------------------------------
(* C14 *)

\* C14: MemoryModel.write(a, v) succeeds for every in-range a and every v of
\* 0 .. 2^data_w - 1, all-ones included, and for a mapped a the store then holds v
\* at a: the WRITE(a, v) frame raises no error and leaves v at a.
C14_WriteAnyValue ==
    \A l \in WriteAddrs, v \in DataVals :
        Single(<<ESCAPE, WRITE>> \o Wire(l) \o Wire(v))
        => /\ error = ""
           /\ (pc = "done" /\ FieldAddr(l) \in valid_addrs) => ram[FieldAddr(l)] = v

---------------------------------------------------------------------------
(* C15 *)

\* ceil(address_width / 8)
AddrWidthBytes == (addr_w + 7) \div 8

\* The address generator is about to return the field of a frame it did not
\* interrupt
AddrFieldDone == pc = "gen_addr" /\ byte_idx >= addr_num_bytes /\ ~interrupt_cmd

\* The logical bytes of a field whose ESCAPE bytes all come in literal pairs
LogicalLen(field) == Len(field) - NumEscape(field) \div 2

\* C15 as stated: the address field is ceil(address_width / 8) logical bytes: the
\* parser has the address after exactly that many, and the generator emits exactly
\* that many for a frame that is not interrupted.
C15_AddressCeilBytes ==
    /\ pc \in ParseFns => Len(addr_bytes) <= AddrWidthBytes
    /\ AddrFieldDone => LogicalLen(addr_bytes) = AddrWidthBytes

\* C15, amended: with address width 16 the address field is 4 logical bytes: the
\* parser has the address after exactly 4 logical bytes, collects data only then,
\* and takes the low 16 bits of the four as the address; the generator emits
\* exactly 4 logical bytes, two NULL bytes and ceil(16 / 8) more, for a frame that
\* is not interrupted.
C15_AddressFourBytes ==
    /\ pc \in ParseFns
        => /\ Len(addr_bytes) <= 4
           /\ data_bytes # <<>> => Len(addr_bytes) = 4
           /\ idx = Len(bytestream) => Len(addr_bytes) = 4
    /\ (pc = "return" /\ Len(addr_bytes) = 4 /\ Truthy(response))
        => response = IF FieldAddr(addr_bytes) \in valid_addrs
                      THEN ram[FieldAddr(addr_bytes)] ELSE <<BREAK>>
    /\ AddrFieldDone
        => /\ LogicalLen(addr_bytes) = 4
           /\ LogicalLen(addr_bytes) = 2 + AddrWidthBytes
           /\ SubSeq(addr_bytes, 1, 2) = <<NULL, NULL>>

\* The parser is at the end of a generated READ frame whose address field was
\* generated as 0, 0, ESCAPE, ESCAPE, 42
C15_Witness ==
    /\ command_bytestreams = << <<231, 19, 0, 0, 231, 231, 42>> >>
    /\ stack = <<>>
    /\ pc = "parse_read"
    /\ idx = Len(bytestream)
    /\ addr_bytes = <<0, 0, 231, 42>>

---------------------------------------------------------------------------
(* C16 *)

\* C16: the NULL padding in front of the last address byte may have any length: a
\* READ frame whose address field is k NULL bytes and then the byte 3 reads the
\* address 3, with the response of the frame that has the standard padding.
C16_AnyPadding ==
    \A f \in PaddedAddrs :
        (Single(<<ESCAPE, READ>> \o f) /\ pc = "done")
        => read_bytestreams = <<ReadResponse(InitialRam, 3)>>

---------------------------------------------------------------------------
(* C17 *)

\* A bytestream that ends inside its only frame: before the READ has its address,
\* or before the WRITE has its address and data, with or without a last ESCAPE
\* that has no escort
CutShort(c) ==
    \E e \in {<<>>, <<ESCAPE>>} :
        \/ \E q \in AddrPrefixes : c = <<ESCAPE, READ>> \o q \o e
        \/ \E q \in WritePrefixes : c = <<ESCAPE, WRITE>> \o q \o e

\* C17: a bytestream that ends before its frame is complete reads and writes no
\* store word, has no response and raises no error.
C17_IncompleteFrameIgnored ==
    (Len(command_bytestreams) = 1 /\ CutShort(command_bytestreams[1]))
        => /\ error = ""
           /\ ram = InitialRam
           /\ response = None
           /\ read_bytestreams = <<>>

---------------------------------------------------------------------------
(* C18 *)

\* The step changes no store word, or it is the end of a WRITE frame that has its
\* whole address and data, and it changes the word of that mapped address only
C18_StoreStep ==
    ram' # ram
        => (/\ pc = "parse_write"
            /\ Len(addr_bytes) = num_addr_bytes
            /\ Len(data_bytes) = num_data_bytes
            /\ FieldAddr(addr_bytes) \in valid_addrs
            /\ DOMAIN ram' = DOMAIN ram
            /\ \A a \in DOMAIN ram : a # FieldAddr(addr_bytes) => ram'[a] = ram[a])

\* C18: the store keeps its words, and a word changes only as the effect of a
\* completed WRITE frame, not aborted and not interrupted, to the mapped address
\* of that word.
C18_StoreChangesByWriteOnly ==
    [](DOMAIN ram = RamAddrs) /\ [][C18_StoreStep]_vars

---------------------------------------------------------------------------
(* C19 *)

\* The data fields of the WRITE frames of SharedCmds
SharedData ==
    {<<170, ESCAPE, 85, 170>>, <<1, 2, 3, 4>>, <<0, 0, 0, 0>>, <<9, 9, 9, 9>>,
     <<137, 171, 205, ESCAPE>>}

\* The command c is one completed WRITE(a, d) frame
IsWrite(c, a, d) == c = <<ESCAPE, WRITE, 0, 0, 0, a>> \o Wire(d)

\* The value at the mapped address a after the first n commands of l: that of the
\* last completed WRITE to a among them, the preload of a if there is none
RECURSIVE ValueAfter(_, _, _)
ValueAfter(l, n, a) ==
    IF n = 0 THEN InitialRam[a]
    ELSE IF \E d \in SharedData : IsWrite(l[n], a, d)
    THEN CHOOSE d \in SharedData : IsWrite(l[n], a, d)
    ELSE ValueAfter(l, n - 1, a)

\* C19: the command bytestreams are parsed in list order on one store: the response
\* to the READ(a) a bytestream completes carries the value of the last completed
\* WRITE(a, v) of the bytestreams before it, or the preload of a if there is none.
C19_SharedStoreInOrder ==
    \A a \in valid_addrs :
        /\ (FromShared /\ pc = "return" /\ ReadAddr(command_bytestreams[cmd]) = a)
            => response = ValueAfter(command_bytestreams, cmd - 1, a)
        /\ (/\ FromShared
            /\ pc \in {"update_read", "done"}
            /\ cmd > 1
            /\ ReadAddr(command_bytestreams[cmd - 1]) = a)
            => /\ read_bytestreams # <<>>
               /\ read_bytestreams[Len(read_bytestreams)] =
                    <<ESCAPE, READ_DATA>> \o Wire(ValueAfter(command_bytestreams, cmd - 2, a))

\* Two WRITE frames to address 2 and then its READ, which gets the second value
C19_Witness ==
    /\ pc = "done"
    /\ command_bytestreams =
        << <<231, 35, 0, 0, 0, 2, 170, 231, 231, 85, 170>>,
           <<231, 35, 0, 0, 0, 2, 9, 9, 9, 9>>, <<231, 19, 0, 0, 0, 2>> >>
    /\ read_bytestreams = << <<231, 3, 9, 9, 9, 9>> >>

---------------------------------------------------------------------------
(* C20 *)

\* C20: the encoder emits every byte of a data response once, except a byte equal
\* to ESCAPE, which it emits as two ESCAPE bytes in a row; and a WRITE frame whose
\* data field is that stuffed sequence makes the parser collect the logical bytes
\* again, so that writing the data part of the response to READ(1) to address 2
\* leaves at address 2 the word of address 1.
C20_StuffingRoundTrip ==
    /\ (pc \in {"update_read", "done"} /\ cmd > 1 /\ Len(response) > 1)
        => LET sent == read_bytestreams[Len(read_bytestreams)]
               data == SubSeq(sent, 3, Len(sent))
           IN /\ sent = <<ESCAPE, READ_DATA>> \o Wire(response)
              /\ Len(data) = Len(response) + NumEscape(response)
              /\ NumEscape(data) = 2 * NumEscape(response)
    /\ (pc = "parse_write" /\ idx = Len(bytestream))
        => \A l \in WriteAddrs, d \in DataVals :
            Single(<<ESCAPE, WRITE>> \o Wire(l) \o Wire(d)) => data_bytes = d
    /\ (/\ Len(command_bytestreams) = 2
        /\ command_bytestreams[1] = <<ESCAPE, READ, 0, 0, 0, 1>>
        /\ cmd = 2
        /\ read_bytestreams # <<>>
        /\ command_bytestreams[2] =
                <<ESCAPE, WRITE, 0, 0, 0, 2>> \o SubSeq(read_bytestreams[1], 3, Len(read_bytestreams[1])))
        => /\ (pc = "parse_write" /\ idx = Len(bytestream)) => data_bytes = InitialRam[1]
           /\ pc = "return" => ram[2] = InitialRam[1]

\* The response to READ(1), whose last byte is ESCAPE, was written back to address 2
C20_Witness ==
    /\ command_bytestreams =
        << <<231, 19, 0, 0, 0, 1>>, <<231, 35, 0, 0, 0, 2, 137, 171, 205, 231, 231>> >>
    /\ pc = "done"
    /\ read_bytestreams = << <<231, 3, 137, 171, 205, 231, 231>> >>
    /\ ram[2] = <<137, 171, 205, 231>>

---------------------------------------------------------------------------
(* C21 *)

\* The bytes s are what is left of a frame of opcode op that still needs n logical
\* bytes of its address or data field, and nothing more: an ESCAPE has an escort
\* right after it; the escort ESCAPE makes one logical byte of the pair; BREAK ends
\* the bytestream; READ or WRITE is followed by a whole frame of that opcode and by
\* no byte of the frame it interrupted
RECURSIVE FrameRest(_, _, _, _)
FrameRest(s, op, field, n) ==
    IF n = 0
    THEN IF field = "addr" /\ op = WRITE THEN FrameRest(s, op, "data", 4) ELSE s = <<>>
    ELSE IF s = <<>> THEN FALSE
    ELSE IF Head(s) # ESCAPE THEN FrameRest(Tail(s), op, field, n - 1)
    ELSE IF Len(s) < 2 THEN FALSE
    ELSE LET escort == s[2]
             rest == SubSeq(s, 3, Len(s))
         IN IF escort = ESCAPE THEN FrameRest(rest, op, field, n - 1)
            ELSE IF escort = BREAK THEN rest = <<>>
            ELSE IF escort \in {READ, WRITE} THEN FrameRest(rest, escort, "addr", 4)
            ELSE FALSE

\* The bytestream without its leading ESCAPE and the NULL bytes after it
RECURSIVE SkipNull(_)
SkipNull(s) == IF s # <<>> /\ Head(s) = NULL THEN SkipNull(Tail(s)) ELSE s

FromOpcode(c) == SkipNull(Tail(c))

\* The generator has returned the whole command bytestream
Generated1 ==
    /\ command_bytestreams # <<>>
    /\ pc \notin {"command_type", "gen_addr", "gen_data", "gen_return"}

\* C21: in a generated command bytestream every ESCAPE of an address or data field
\* is followed at once by an escort of READ, WRITE, BREAK, ESCAPE; with the escort
\* ESCAPE the pair is one logical byte and the field goes on; after the escort READ,
\* WRITE or BREAK no byte of the outer frame follows, so that a WRITE interrupted
\* in its address field has no data field.
C21_EscortsAndInterrupts ==
    Generated1
        => LET c == FromOpcode(command_bytestreams[1]) IN
           /\ c # <<>>
           /\ Head(c) \in {READ, WRITE} => FrameRest(Tail(c), Head(c), "addr", 4)
           /\ Head(c) \in {READ, WRITE, BREAK, ESCAPE}

\* A generated WRITE frame interrupted in its address field by a READ frame: the
\* bytestream ends with the READ frame
C21_Witness ==
    /\ command_bytestreams = << <<231, 35, 0, 0, 231, 19, 0, 0, 0, 1>> >>
    /\ pc = "update_read"
    /\ stack = <<>>

---------------------------------------------------------------------------
(* C22 *)

\* The bytes of the commands, one command after the other
RECURSIVE Flatten(_)
Flatten(l) == IF l = <<>> THEN <<>> ELSE Head(l) \o Flatten(Tail(l))

\* C22: under drive_cmds_random_vlds, as under drive_cmds, the DUT is shown the
\* bytes of the commands in order, each on one rising edge with data_in_vld high,
\* and data_in_vld is low on the rising edges of the gap after each command: what
\* the DUT has sampled is always the start of the bytes of the commands, it is all
\* of them when the driver is done, and data_in_vld is low while a gap is waited.
C22_DutSeesExactBytes ==
    /\ Len(seen) <= Len(Flatten(command_bytestreams))
    /\ seen = SubSeq(Flatten(command_bytestreams), 1, Len(seen))
    /\ pc \in {"drive_gap", "random_gap"} => ~data_in_vld
    /\ pc \in {"drive_done", "random_done"} => seen = Flatten(command_bytestreams)

---------------------------------------------------------------------------
(* C23 *)

\* ESCAPE, NULL bytes, and one opcode that starts no frame
TopLevelOnly(c) ==
    /\ Len(c) >= 2
    /\ c[1] = ESCAPE
    /\ c[Len(c)] \in {BREAK, ESCAPE}
    /\ \A i \in 2..(Len(c) - 1) : c[i] = NULL

\* C23: generator and parser agree on the frames, for address width 16 and data
\* width 32: a generated bytestream starts with ESCAPE; while the parser has bytes
\* of it left, the frame it is in is not complete; it reaches the end of the
\* bytestream with the address, and the data of a WRITE, complete and no ESCAPE
\* pending, or it stops at a BREAK escort that is the last byte, or the bytestream
\* is ESCAPE, NULL bytes and a BREAK or ESCAPE opcode.
C23_GrammarAgreement ==
    /\ Generated1 => command_bytestreams[1][1] = ESCAPE
    /\ (pc \in ParseFns /\ idx < Len(bytestream)) => InField
    /\ (pc \in ParseFns /\ idx = Len(bytestream))
        => /\ Len(addr_bytes) = 4
           /\ pc = "parse_write" => Len(data_bytes) = 4
           /\ ~is_escaped
    /\ (pc = "parse_bytestream" /\ idx = Len(bytestream)) => TopLevelOnly(bytestream)
    /\ pc = "raised" => idx = Len(bytestream)
    /\ (pc = "return" /\ idx # Len(bytestream))
        => /\ idx + 1 = Len(bytestream)
           /\ bytestream[idx + 1] = BREAK
           /\ is_escaped

\* The parser is at the end of a generated bytestream, in the READ frame that
\* interrupted the address field of a WRITE frame
C23_Witness ==
    /\ command_bytestreams = << <<231, 35, 0, 0, 231, 19, 0, 0, 0, 1>> >>
    /\ stack = <<>>
    /\ pc = "parse_read"
    /\ idx = Len(bytestream)
    /\ bytestream = <<0, 0, 0, 1>>
    /\ addr_bytes = <<0, 0, 0, 1>>

---------------------------------------------------------------------------
(* C24 *)

ParsePcs == {"parse_bytestream", "parse_write", "parse_read"}

\* A step inside the parse of one bytestream examines the byte at idx and no other:
\* it moves to the next byte of the same bytestream, or the byte is READ or WRITE
\* and the function of that opcode starts on the bytes after it, which are fewer;
\* a field grows by the byte examined only
C24_Step ==
    (pc \in ParsePcs /\ pc' \in ParsePcs)
        => /\ idx < Len(bytestream)
           /\ \/ /\ bytestream' = bytestream
                 /\ idx' = idx + 1
                 /\ pc' = pc
                 /\ addr_bytes' \in {addr_bytes, Append(addr_bytes, bytestream[idx + 1])}
                 /\ data_bytes' \in {data_bytes, Append(data_bytes, bytestream[idx + 1])}
              \/ /\ bytestream[idx + 1] \in {READ, WRITE}
                 /\ pc' = (IF bytestream[idx + 1] = READ THEN "parse_read" ELSE "parse_write")
                 /\ bytestream' = SubSeq(bytestream, idx + 2, Len(bytestream))
                 /\ Len(bytestream') < Len(bytestream)
                 /\ idx' = 0
                 /\ addr_bytes' = <<>>
                 /\ data_bytes' = <<>>

\* What a parse function works on is the end of the command bytestream, and idx is
\* a position in it
C24_InOrder ==
    pc \in ParsePcs
        => LET c == command_bytestreams[cmd] IN
           /\ idx <= Len(bytestream)
           /\ Len(bytestream) <= Len(c)
           /\ bytestream = SubSeq(c, Len(c) - Len(bytestream) + 1, Len(c))

\* C24: the parse of a finite command bytestream terminates: the bytes are examined
\* one after the other in their order, a nested parse started by READ or WRITE
\* works on the bytes right after that byte, which are fewer, no byte is examined
\* or collected twice, and the run of the parser comes to its end.
C24_Terminates ==
    /\ <>(pc \in {"done", "raised"})
    /\ []C24_InOrder
    /\ [][C24_Step]_vars

\* The nested parse of the READ frame that interrupted a WRITE frame is at the end
\* of its bytes
C24_Witness ==
    /\ Single(<<231, 35, 0, 0, 0, 1, 170, 231, 19, 0, 0, 0, 2>>)
    /\ pc = "parse_read"
    /\ bytestream = <<0, 0, 0, 2>>
    /\ idx = 4

=============================================================================
